---- MODULE Spec2Model ----
(***************************************************************************)
(* Enum discovery (bacdive_tools/discover_enums.py) as a state machine.    *)
(*                                                                         *)
(* Strings (paths, sampled values, enum ids) are sequences of one-character*)
(* strings, so that endswith, split, strip, the numeric pattern, len and   *)
(* lexicographic order are computed as the code computes them.             *)
(* A missing value (pandas NaN) is the one-element sequence <<"NaN">>,     *)
(* which no real string equals (its element is not a single character).    *)
(***************************************************************************)
EXTENDS Integers, Sequences, FiniteSets, TLC

VARIABLES
  pc,                   \* position in discover_enums
  merged,               \* path-statistics table (rows in file order)
  values,               \* value-sample table (rows in file order)
  candidates,           \* merged rows with distinct_value_count >= 2, plus lineage
  values_grouped,       \* canonical_path -> list of values
  lineage_groups,       \* groupby("lineage"): groups in sorted key order
  gi,                   \* index of the group the loop is at
  sibling_enum_flags,   \* ordered dict of the current group: <<path, flag>> pairs
  sibling_value_counts, \* dict of the current group: path -> distinct count
  include_paths,        \* list of the current group
  decision_log,         \* accumulator
  enum_value_pairs,     \* accumulator
  path_to_enum,         \* accumulator
  enum_counter,         \* global provisional enum counter
  enum_to_values,       \* groupby("enum"): <<enum, value_set>> in sorted key order
  di,                   \* index of the enum the deduplication loop is at
  value_set_to_enum,    \* dict: value set -> canonical enum id
  enum_remap,           \* ordered dict: <<old enum id, new enum id>> pairs
  canonical_counter,    \* counter of canonical enum ids
  merge_log,            \* rows of the enum merge log
  written,              \* the output tables written so far
  raised                \* the exception that ended the run, "none" if none

vars == <<pc, merged, values, candidates, values_grouped, lineage_groups, gi,
          sibling_enum_flags, sibling_value_counts, include_paths,
          decision_log, enum_value_pairs, path_to_enum, enum_counter,
          enum_to_values, di, value_set_to_enum, enum_remap,
          canonical_counter, merge_log, written, raised>>

----------------------------------------------------------------------------
(* Heuristic thresholds.  The two ratio thresholds are kept as exact       *)
(* fractions <<numerator, denominator>>: 0.5 = 1/2 and 0.3 = 3/10.  The    *)
(* code divides two small integers in floating point; the quotient of 3 by *)
(* 10 (or 6 by 20, ...) is the double nearest 3/10, which is the literal   *)
(* 0.3, and division is monotone, so for the list lengths considered here  *)
(* "k / n > 0.3" is the exact comparison 10 * k > 3 * n.                   *)

MIN_ENUM_VALUES == 2

MAX_ENUM_VALUES == 15

NUMERIC_RATIO_THRESHOLD == <<1, 2>>

LONG_TEXT_THRESHOLD == 50

LONG_TEXT_RATIO_THRESHOLD == <<3, 10>>

----------------------------------------------------------------------------
(* Strings.                                                                *)

\* The characters used, in code point order.
Chars ==
  << " ", "-", ".", "/", "0", "1", "2", "3", "4", "5", "6", "7", "8", "9",
     ":", "E", "[", "]", "_", "a", "b", "c", "d", "e", "f", "g", "h", "i",
     "j", "k", "l", "m", "n", "o", "p", "q", "r", "s", "t", "u", "v", "w",
     "x", "y", "z", "©" >>

CharSet == {Chars[i] : i \in DOMAIN Chars}

\* Rank of a character; order-isomorphic to its code point.
Ord == [c \in CharSet |-> CHOOSE i \in DOMAIN Chars : Chars[i] = c]

Digit == {"0", "1", "2", "3", "4", "5", "6", "7", "8", "9"}

Whitespace == {" "}

NaN == <<"NaN">>

isna(v) == v = NaN

notna(v) == v # NaN

\* a < b for str: the first differing character decides, a proper prefix is less.
StrLess(a, b) ==
  \E i \in 1..(Len(b)) :
     /\ \A j \in 1..(i - 1) : j <= Len(a) /\ a[j] = b[j]
     /\ \/ i = Len(a) + 1
        \/ i <= Len(a) /\ Ord[a[i]] < Ord[b[i]]

endswith(s, suffix) ==
  /\ Len(s) >= Len(suffix)
  /\ SubSeq(s, Len(s) - Len(suffix) + 1, Len(s)) = suffix

\* sub in s
contains(s, sub) ==
  \E i \in 1..(Len(s) - Len(sub) + 1) : SubSeq(s, i, i + Len(sub) - 1) = sub

RECURSIVE split(_, _)
\* s.split(sep) for a one-character sep: the list of segments.
split(s, sep) ==
  IF \A i \in DOMAIN s : s[i] # sep
  THEN <<s>>
  ELSE LET i == CHOOSE k \in DOMAIN s :
                  s[k] = sep /\ \A j \in 1..(k - 1) : s[j] # sep
       IN <<SubSeq(s, 1, i - 1)>> \o split(SubSeq(s, i + 1, Len(s)), sep)

RECURSIVE join(_, _)
\* sep.join(parts)
join(parts, sep) ==
  IF parts = <<>> THEN <<>>
  ELSE IF Len(parts) = 1 THEN parts[1]
  ELSE parts[1] \o <<sep>> \o join(Tail(parts), sep)

RECURSIVE strip(_)
\* s.strip()
strip(s) ==
  IF s = <<>> THEN s
  ELSE IF s[1] \in Whitespace THEN strip(Tail(s))
  ELSE IF s[Len(s)] \in Whitespace THEN strip(SubSeq(s, 1, Len(s) - 1))
  ELSE s

AllDigits(s) == s # <<>> /\ \A i \in DOMAIN s : s[i] \in Digit

\* re.fullmatch(r"^-?\d+(\.\d+)?$", s)
NumericPattern(s) ==
  LET body == IF s # <<>> /\ s[1] = "-" THEN Tail(s) ELSE s
  IN \/ AllDigits(body)
     \/ \E i \in DOMAIN body :
          /\ body[i] = "."
          /\ AllDigits(SubSeq(body, 1, i - 1))
          /\ AllDigits(SubSeq(body, i + 1, Len(body)))

is_numeric(value) ==
  IF isna(value) THEN FALSE ELSE NumericPattern(strip(value))

LongTextSymbols == { <<"©">>, <<"h", "t", "t", "p">>, <<":", "/", "/">> }

is_long_text(value) ==
  IF isna(value) THEN FALSE
  ELSE IF Len(value) > LONG_TEXT_THRESHOLD THEN TRUE
  ELSE IF \E sym \in LongTextSymbols : contains(value, sym) THEN TRUE
  ELSE FALSE

AllButLast(s) == SubSeq(s, 1, Len(s) - 1)

extract_lineage(path) == join(AllButLast(split(path, ".")), ".")

ArraySuffix == <<".", "[", "]">>

\* The last three characters cut off, whatever they are.
strip_last_three(path) == SubSeq(path, 1, Len(path) - 3)

\* The value merge_scalar_and_list_paths puts in canonical_map[path].
canonical_map(path) ==
  IF endswith(path, ArraySuffix)
  THEN SubSeq(path, 1, Len(path) - 3)
  ELSE path

\* df["canonical_path"] = df["path"].map(canonical_map)
merge_scalar_and_list_paths(df) ==
  [i \in DOMAIN df |->
     [c \in DOMAIN df[i] \cup {"canonical_path"} |->
        IF c = "canonical_path" THEN canonical_map(df[i].path) ELSE df[i][c]]]

DigitSeq == <<"0", "1", "2", "3", "4", "5", "6", "7", "8", "9">>

RECURSIVE DecStr(_)
\* The decimal digits of a natural number.
DecStr(n) ==
  IF n < 10 THEN <<DigitSeq[n + 1]>>
  ELSE DecStr(n \div 10) \o <<DigitSeq[(n % 10) + 1]>>

RECURSIVE ZeroPad(_, _)
ZeroPad(s, width) == IF Len(s) >= width THEN s ELSE ZeroPad(<<"0">> \o s, width)

\* f"Enum_{n:04d}"
EnumId(n) == <<"E", "n", "u", "m", "_">> \o ZeroPad(DecStr(n), 4)

----------------------------------------------------------------------------
(* Lists, dicts and tables.                                                *)

Range(s) == {s[i] : i \in DOMAIN s}

RECURSIVE unique(_)
\* Series.unique(): the distinct elements in order of first appearance.
unique(s) ==
  IF s = <<>> THEN <<>>
  ELSE LET front == unique(AllButLast(s))
           last == s[Len(s)]
       IN IF last \in Range(front) THEN front ELSE Append(front, last)

RECURSIVE sorted(_)
\* sorted(S) for a set of str: ascending lexicographic order.
sorted(S) ==
  IF S = {} THEN <<>>
  ELSE LET least == CHOOSE x \in S : \A y \in S \ {x} : StrLess(x, y)
       IN <<least>> \o sorted(S \ {least})

\* d.get(key, default)
Get(d, key, default) == IF key \in DOMAIN d THEN d[key] ELSE default

\* The rows of a table that satisfy a column test keep their order.
Column(df, c) == [i \in DOMAIN df |-> df[i][c]]

\* values.groupby("canonical_path")["value"].apply(list).to_dict()
GroupValues(df) ==
  [p \in Range(Column(df, "canonical_path")) |->
     LET Of(r) == r.canonical_path = p
     IN Column(SelectSeq(df, Of), "value")]

\* merged[merged["distinct_value_count"] >= MIN_ENUM_VALUES]
FilterCandidates(df) ==
  LET Enough(r) == r.distinct_value_count >= MIN_ENUM_VALUES
  IN SelectSeq(df, Enough)

\* The lineage of the raw path of a row.
raw_path_lineage(r) == extract_lineage(r.path)

\* The lineage a candidate row is grouped under.
row_lineage(r) == extract_lineage(r.canonical_path)

\* candidates["lineage"] = candidates["canonical_path"].apply(extract_lineage)
AddLineage(df) ==
  [i \in DOMAIN df |->
     [c \in DOMAIN df[i] \cup {"lineage"} |->
        IF c = "lineage" THEN row_lineage(df[i]) ELSE df[i][c]]]

\* candidates.groupby("lineage"): one group per key, keys in sorted order,
\* the rows of a group in table order.
GroupByLineage(df) ==
  LET keys == sorted(Range(Column(df, "lineage")))
  IN [k \in DOMAIN keys |->
        LET Of(r) == r.lineage = keys[k]
        IN [lineage |-> keys[k], rows |-> SelectSeq(df, Of)]]

\* drop_duplicates(): the first occurrence of each row is kept.
drop_duplicates(df) == unique(df)

----------------------------------------------------------------------------
(* Per-path classification, lines 100-119.                                 *)

NonNull(vals) == SelectSeq(vals, notna)

\* sum(is_numeric(v) for v in vals)
NumericSum(vals) == Cardinality({i \in DOMAIN vals : is_numeric(vals[i])})

\* sum(is_long_text(v) for v in vals)
LongTextSum(vals) == Cardinality({i \in DOMAIN vals : is_long_text(vals[i])})

\* num / den >= threshold
RatioAtLeast(num, den, threshold) == num * threshold[2] >= threshold[1] * den

\* num / den > threshold, for a threshold given as a fraction
RatioAbove(num, den, threshold) == num * threshold[2] > threshold[1] * den

\* "empty" (no decision row), the reason of the exclusion, or "categorical".
Classify(all_vals) ==
  LET vals == NonNull(all_vals)
  IN IF vals = <<>> THEN "empty"
     ELSE IF RatioAbove(NumericSum(vals), Len(vals),
                        NUMERIC_RATIO_THRESHOLD)
       THEN "numeric-dominated"
     ELSE IF RatioAbove(LongTextSum(vals), Len(vals),
                        LONG_TEXT_RATIO_THRESHOLD)
       THEN "long-text-non-biological"
     ELSE "categorical"

\* len(set(vals)) of the non-null values
DistinctCount(all_vals) == Cardinality(Range(NonNull(all_vals)))

LogRow(path, decision, reason, lineage) ==
  [path |-> path, decision |-> decision, reason |-> reason, lineage |-> lineage]

RECURSIVE ExclusionRows(_, _, _)
\* The decision rows the classification loop appends, in sibling order.
ExclusionRows(siblings, sibling_values, lineage) ==
  IF siblings = <<>> THEN <<>>
  ELSE LET path == siblings[1]
           class == Classify(sibling_values[path])
           rest == ExclusionRows(Tail(siblings), sibling_values, lineage)
       IN IF class \in {"numeric-dominated", "long-text-non-biological"}
          THEN <<LogRow(path, "exclude", class, lineage)>> \o rest
          ELSE rest

----------------------------------------------------------------------------
(* Inputs.                                                                 *)

\* How many raw paths an input statistics table holds at most.
MaxPaths == 3

\* How many sampled values the single path of a classifier input holds at most.
MaxVals == 11

Repeat(c, n) == [i \in 1..n |-> c]

\* Raw paths: "a", "a.[]", "a.[].[]", "o.x", "o.y", "o.z" (file order).
RawPaths ==
  << <<"a">>,
     <<"a", ".", "[", "]">>,
     <<"a", ".", "[", "]", ".", "[", "]">>,
     <<"o", ".", "x">>,
     <<"o", ".", "y">>,
     <<"o", ".", "z">> >>

Letters ==
  << "a", "b", "c", "d", "e", "f", "g", "h", "i", "j", "k", "l", "m", "n", "o",
     "p", "q", "r", "s", "t", "u", "v", "w", "x", "y", "z" >>

Yes == <<"y", "e", "s">>

No == <<"n", "o">>

\* MAX_ENUM_VALUES + 1 distinct categorical values: "va", "vb", ...
Oversized == [i \in 1..(MAX_ENUM_VALUES + 1) |-> <<"v", Letters[i]>>]

\* The sample lists a raw path can come with.
SampleLists ==
  { <<Yes, No>>,
    <<No, NaN, Yes, No>>,
    << <<"r", "e", "d">>, Yes >>,
    Oversized,
    << <<"1">>, <<"-", "2", ".", "5">>, <<"x">> >> }

PathInputs ==
  {[distinct_value_count |-> MIN_ENUM_VALUES, samples |-> l] : l \in SampleLists}
  \cup {[distinct_value_count |-> MIN_ENUM_VALUES - 1, samples |-> <<Yes, No>>]}

\* The statistics table: one row per chosen raw path.
MergedTable(paths, input) ==
  [i \in DOMAIN paths |->
     [path |-> paths[i],
      distinct_value_count |-> input[paths[i]].distinct_value_count]]

RECURSIVE ValuesTable(_, _)
\* The value table: the sample rows of each chosen raw path.
ValuesTable(paths, input) ==
  IF paths = <<>> THEN <<>>
  ELSE LET p == paths[1]
           l == input[p].samples
       IN [i \in DOMAIN l |-> [path |-> p, value |-> l[i]]]
          \o ValuesTable(Tail(paths), input)

\* Representatives of the kinds of value the classifier tells apart.
NumericValues == << <<"1">>, <<"-", "2", ".", "5">>, <<" ", "7", " ">> >>

LongTextValues ==
  << <<"h", "t", "t", "p", ":", "/", "/", "x">>,
     Repeat("x", LONG_TEXT_THRESHOLD + 1),
     <<"©", "x">> >>

NumericLongValues == << Repeat("9", LONG_TEXT_THRESHOLD + 1) >>

PlainValues ==
  << <<"r", "e", "d">>,
     <<"1", ".">>,
     Repeat("x", LONG_TEXT_THRESHOLD),
     <<"-">> >>

\* n values taken round-robin from reps
Take(reps, n) == [i \in 1..n |-> reps[((i - 1) % Len(reps)) + 1]]

ClassifierPath == <<"o", ".", "x">>

InitLocals ==
  /\ pc = "loaded"
  /\ candidates = <<>>
  /\ values_grouped = <<>>
  /\ lineage_groups = <<>>
  /\ gi = 1
  /\ sibling_enum_flags = <<>>
  /\ sibling_value_counts = <<>>
  /\ include_paths = <<>>
  /\ decision_log = <<>>
  /\ enum_value_pairs = <<>>
  /\ path_to_enum = <<>>
  /\ enum_counter = 1
  /\ enum_to_values = <<>>
  /\ di = 1
  /\ value_set_to_enum = <<>>
  /\ enum_remap = <<>>
  /\ canonical_counter = 1
  /\ merge_log = <<>>
  /\ written = <<>>
  /\ raised = "none"

\* The two tables as read from the files: up to MaxPaths raw paths, each with
\* a distinct_value_count and a sample list.
Init ==
  /\ \E chosen \in SUBSET Range(RawPaths) :
       /\ Cardinality(chosen) \in 1..MaxPaths
       /\ \E input \in [chosen -> PathInputs] :
            LET Chosen(p) == p \in chosen
                paths == SelectSeq(RawPaths, Chosen)
            IN /\ merged = MergedTable(paths, input)
               /\ values = ValuesTable(paths, input)
  /\ InitLocals

\* One candidate path whose samples are k numeric, t long-text, b both,
\* c plain values and z nulls, k + t + b + c + z <= MaxVals.
InitClassifier ==
  /\ \E k, t, b, c, z \in 0..MaxVals :
       /\ k + t + b + c + z <= MaxVals
       /\ merged = << [path |-> ClassifierPath,
                       distinct_value_count |-> MIN_ENUM_VALUES] >>
       /\ LET l == Take(NumericValues, k) \o Take(LongTextValues, t)
                   \o Take(NumericLongValues, b) \o Take(PlainValues, c)
                   \o Repeat(NaN, z)
          IN values = [i \in DOMAIN l |-> [path |-> ClassifierPath, value |-> l[i]]]
  /\ InitLocals

----------------------------------------------------------------------------
(* The two input files and pd.read_csv(file, sep="\t"), lines 68-69.       *)
(* A file is its header (column names) and its rows (lists of cells, each  *)
(* cell the text between two tabs).                                        *)

\* How many raw paths the files of a possibly damaged input hold at most.
MaxFilePaths == 2

MergedHeader == <<"path", "distinct_value_count">>

ValuesHeader == <<"path", "value">>

\* The statistics file that holds the rows of a table.
MergedFile(table) ==
  [header |-> MergedHeader,
   rows |-> [i \in DOMAIN table |->
               <<table[i].path, DecStr(table[i].distinct_value_count)>>]]

\* The value file that holds the rows of a table; a missing value is an
\* empty cell.
ValuesFile(table) ==
  [header |-> ValuesHeader,
   rows |-> [i \in DOMAIN table |->
               <<table[i].path,
                 IF isna(table[i].value) THEN <<>> ELSE table[i].value>>]]

\* s without its k-th element
Remove(s, k) == SubSeq(s, 1, k - 1) \o SubSeq(s, k + 1, Len(s))

\* The file with its k-th column left out.
WithoutColumn(file, k) ==
  [header |-> Remove(file.header, k),
   rows |-> [i \in DOMAIN file.rows |-> Remove(file.rows[i], k)]]

\* The file with one cell too many in its first row.
WithExtraField(file) ==
  [file EXCEPT !.rows = [i \in DOMAIN file.rows |->
                           IF i = 1 THEN Append(file.rows[i], <<"x">>)
                           ELSE file.rows[i]]]

Damages ==
  {"none", "merged_without_path", "merged_without_count", "merged_extra_field",
   "values_without_path", "values_without_value", "values_extra_field"}

DamagedMerged(file, damage) ==
  IF damage = "merged_without_path" THEN WithoutColumn(file, 1)
  ELSE IF damage = "merged_without_count" THEN WithoutColumn(file, 2)
  ELSE IF damage = "merged_extra_field" THEN WithExtraField(file)
  ELSE file

DamagedValues(file, damage) ==
  IF damage = "values_without_path" THEN WithoutColumn(file, 1)
  ELSE IF damage = "values_without_value" THEN WithoutColumn(file, 2)
  ELSE IF damage = "values_extra_field" THEN WithExtraField(file)
  ELSE file

\* A row with more cells than the header: read_csv raises ParserError.
TooManyFields(file) ==
  \E i \in DOMAIN file.rows : Len(file.rows[i]) > Len(file.header)

RECURSIVE ParseInt(_)
\* int(s) for a string of digits
ParseInt(s) ==
  LET d == (CHOOSE n \in 1..10 : DigitSeq[n] = s[Len(s)]) - 1
  IN IF Len(s) = 1 THEN d ELSE 10 * ParseInt(AllButLast(s)) + d

\* Type inference: a column whose cells are all digits (or empty) is numeric.
\* (Signs and decimal points in a wholly numeric column are left aside.)
IntColumn(file, k) ==
  \A i \in DOMAIN file.rows :
     (k <= Len(file.rows[i]) /\ file.rows[i][k] # <<>>)
        => AllDigits(file.rows[i][k])

\* The value read_csv gives row i in column k: a missing or empty cell is NaN.
Cell(file, i, k) ==
  IF k > Len(file.rows[i]) \/ file.rows[i][k] = <<>> THEN NaN
  ELSE IF IntColumn(file, k) THEN ParseInt(file.rows[i][k])
  ELSE file.rows[i][k]

\* The table read from a file that raises no ParserError.
read_csv(file) ==
  [i \in DOMAIN file.rows |->
     [c \in Range(file.header) |->
        Cell(file, i, CHOOSE k \in DOMAIN file.header : file.header[k] = c)]]

\* The files as given: up to MaxFilePaths raw paths with their counts and
\* samples, well-formed or damaged in one of the ways of Damages.
InitMalformed ==
  /\ \E chosen \in SUBSET Range(RawPaths) :
       /\ Cardinality(chosen) \in 1..MaxFilePaths
       /\ \E input \in [chosen -> PathInputs], damage \in Damages :
            LET Chosen(p) == p \in chosen
                paths == SelectSeq(RawPaths, Chosen)
            IN /\ merged = DamagedMerged(MergedFile(MergedTable(paths, input)), damage)
               /\ values = DamagedValues(ValuesFile(ValuesTable(paths, input)), damage)
  /\ pc = "start"
  /\ candidates = <<>>
  /\ values_grouped = <<>>
  /\ lineage_groups = <<>>
  /\ gi = 1
  /\ sibling_enum_flags = <<>>
  /\ sibling_value_counts = <<>>
  /\ include_paths = <<>>
  /\ decision_log = <<>>
  /\ enum_value_pairs = <<>>
  /\ path_to_enum = <<>>
  /\ enum_counter = 1
  /\ enum_to_values = <<>>
  /\ di = 1
  /\ value_set_to_enum = <<>>
  /\ enum_remap = <<>>
  /\ canonical_counter = 1
  /\ merge_log = <<>>
  /\ written = <<>>
  /\ raised = "none"

----------------------------------------------------------------------------
(* discover_enums, step by step.                                           *)

\* df[column] raises KeyError when the table has no such column.
HasColumn(df, column) == \A i \in DOMAIN df : column \in DOMAIN df[i]

\* An exception handled by reporting it and carrying on to the writes.
ReportAndContinue == "write"

\* discover_enums has no try/except: an exception leaves the function, and
\* none of the statements after the one that raised it runs.
AfterRaise == "failed"

\* Lines 68-69: the two files are read, the statistics file first.
Load ==
  /\ pc = "start"
  /\ IF TooManyFields(merged)
     THEN /\ UNCHANGED <<merged, values>>
          /\ raised' = "ParserError"
          /\ pc' = AfterRaise
     ELSE IF TooManyFields(values)
     THEN /\ merged' = read_csv(merged)
          /\ UNCHANGED values
          /\ raised' = "ParserError"
          /\ pc' = AfterRaise
     ELSE /\ merged' = read_csv(merged)
          /\ values' = read_csv(values)
          /\ UNCHANGED raised
          /\ pc' = "loaded"
  /\ UNCHANGED <<candidates, values_grouped, lineage_groups, gi,
                 sibling_enum_flags, sibling_value_counts, include_paths,
                 decision_log, enum_value_pairs, path_to_enum, enum_counter,
                 enum_to_values, di, value_set_to_enum, enum_remap,
                 canonical_counter, merge_log, written>>

\* Lines 72-73.
MergePaths ==
  /\ pc = "loaded"
  /\ IF ~HasColumn(merged, "path")
     THEN /\ UNCHANGED <<merged, values>>
          /\ raised' = "KeyError"
          /\ pc' = AfterRaise
     ELSE IF ~HasColumn(values, "path")
     THEN /\ merged' = merge_scalar_and_list_paths(merged)
          /\ UNCHANGED values
          /\ raised' = "KeyError"
          /\ pc' = AfterRaise
     ELSE /\ merged' = merge_scalar_and_list_paths(merged)
          /\ values' = merge_scalar_and_list_paths(values)
          /\ UNCHANGED raised
          /\ pc' = "prepare"
  /\ UNCHANGED <<candidates, values_grouped, lineage_groups, gi,
                 sibling_enum_flags, sibling_value_counts, include_paths,
                 decision_log, enum_value_pairs, path_to_enum, enum_counter,
                 enum_to_values, di, value_set_to_enum, enum_remap,
                 canonical_counter, merge_log, written>>

\* Lines 76-90.
Prepare ==
  /\ pc = "prepare"
  /\ IF ~HasColumn(merged, "distinct_value_count")
     THEN /\ UNCHANGED <<candidates, values_grouped, lineage_groups,
                         decision_log, enum_value_pairs, path_to_enum,
                         enum_counter, gi>>
          /\ raised' = "KeyError"
          /\ pc' = AfterRaise
     ELSE IF ~HasColumn(values, "value")
     THEN /\ candidates' = FilterCandidates(merged)
          /\ UNCHANGED <<values_grouped, lineage_groups, decision_log,
                         enum_value_pairs, path_to_enum, enum_counter, gi>>
          /\ raised' = "KeyError"
          /\ pc' = AfterRaise
     ELSE /\ candidates' = AddLineage(FilterCandidates(merged))
          /\ values_grouped' = GroupValues(values)
          /\ lineage_groups' = GroupByLineage(candidates')
          /\ decision_log' = <<>>
          /\ enum_value_pairs' = <<>>
          /\ path_to_enum' = <<>>
          /\ enum_counter' = 1
          /\ gi' = 1
          /\ UNCHANGED raised
          /\ pc' = "loop"
  /\ UNCHANGED <<merged, values, sibling_enum_flags, sibling_value_counts,
                 include_paths, enum_to_values, di, value_set_to_enum,
                 enum_remap, canonical_counter, merge_log, written>>

\* list(group["canonical_path"].unique())
Siblings(group) == unique(Column(group.rows, "canonical_path"))

\* {s: values_grouped.get(s, []) for s in siblings}
SiblingValues(siblings) ==
  [s \in Range(siblings) |-> Get(values_grouped, s, <<>>)]

\* Lines 93-121: classify every sibling of the group.
ClassifySiblings ==
  /\ pc = "loop"
  /\ gi <= Len(lineage_groups)
  /\ LET group == lineage_groups[gi]
         siblings == Siblings(group)
         sibling_values == SiblingValues(siblings)
         Flag(p) == Classify(sibling_values[p]) = "categorical"
     IN /\ sibling_enum_flags' = [i \in DOMAIN siblings |->
                                    <<siblings[i], Flag(siblings[i])>>]
        /\ sibling_value_counts' =
             [p \in {q \in Range(siblings) : Flag(q)} |->
                DistinctCount(sibling_values[p])]
        /\ decision_log' = decision_log
             \o ExclusionRows(siblings, sibling_values, group.lineage)
        /\ include_paths' = SelectSeq(siblings, Flag)
  /\ pc' = "check_include"
  /\ UNCHANGED <<merged, values, candidates, values_grouped, lineage_groups,
                 gi, enum_value_pairs, path_to_enum, enum_counter,
                 enum_to_values, di, value_set_to_enum, enum_remap,
                 canonical_counter, merge_log, written, raised>>

\* Lines 122-123: nothing included, next group.
SkipGroup ==
  /\ pc = "check_include"
  /\ include_paths = <<>>
  /\ gi' = gi + 1
  /\ pc' = "loop"
  /\ UNCHANGED <<merged, values, candidates, values_grouped, lineage_groups,
                 sibling_enum_flags, sibling_value_counts, include_paths,
                 decision_log, enum_value_pairs, path_to_enum, enum_counter,
                 enum_to_values, di, value_set_to_enum, enum_remap,
                 canonical_counter, merge_log, written, raised>>

\* any(sibling_value_counts.get(p, 0) > MAX_ENUM_VALUES for p in include_paths)
AnyOversized(paths, counts) ==
  \E i \in DOMAIN paths : Get(counts, paths[i], 0) > MAX_ENUM_VALUES

\* sum(v <= MAX for v in counts.values()) >= len(counts) / 2
half_below_limit(counts) ==
  2 * Cardinality({p \in DOMAIN counts : counts[p] <= MAX_ENUM_VALUES})
    >= Cardinality(DOMAIN counts)

\* sum(v <= MAX for v in counts.values()) > len(counts) / 2
majority_below_limit(counts) ==
  2 * Cardinality({p \in DOMAIN counts : counts[p] <= MAX_ENUM_VALUES})
    > Cardinality(DOMAIN counts)

\* [p for p in include_paths if sibling_value_counts.get(p, 0) <= MAX_ENUM_VALUES]
WithinLimit(paths, counts) ==
  LET Small(p) == Get(counts, p, 0) <= MAX_ENUM_VALUES
  IN SelectSeq(paths, Small)

\* Lines 125-130: the oversized-group rule.
OversizeRule ==
  /\ pc = "check_include"
  /\ include_paths # <<>>
  /\ LET lineage == lineage_groups[gi].lineage
     IN IF AnyOversized(include_paths, sibling_value_counts)
        THEN IF majority_below_limit(sibling_value_counts)
             THEN /\ decision_log' = Append(decision_log,
                        LogRow(lineage, "include_override", "lineage-override",
                               lineage))
                  /\ UNCHANGED include_paths
             ELSE /\ include_paths' =
                        WithinLimit(include_paths, sibling_value_counts)
                  /\ UNCHANGED decision_log
        ELSE UNCHANGED <<include_paths, decision_log>>
  /\ pc' = "assemble"
  /\ UNCHANGED <<merged, values, candidates, values_grouped, lineage_groups,
                 gi, sibling_enum_flags, sibling_value_counts,
                 enum_value_pairs, path_to_enum, enum_counter,
                 enum_to_values, di, value_set_to_enum, enum_remap,
                 canonical_counter, merge_log, written, raised>>

\* The union of the sample values of every sibling, included or not.
AllSiblingValues(paths) ==
  UNION {Range(Get(values_grouped, sibling_enum_flags[i][1], <<>>)) :
           i \in DOMAIN sibling_enum_flags}

\* Lines 135-137: the union of the sample values of the paths.
AllEnumValues(paths) ==
  UNION {Range(Get(values_grouped, paths[i], <<>>)) : i \in DOMAIN paths}

\* Lines 139-140: one row per non-null value, in sorted order.
EnumValueRows(enum_id, all_enum_values) ==
  LET vals == sorted({v \in all_enum_values : notna(v)})
  IN [i \in DOMAIN vals |-> [enum |-> enum_id, value |-> vals[i]]]

\* Lines 132-144: allocate the id, append the rows of the enum.
AssembleEnum ==
  /\ pc = "assemble"
  /\ LET lineage == lineage_groups[gi].lineage
         enum_id == EnumId(enum_counter)
     IN /\ enum_counter' = enum_counter + 1
        /\ enum_value_pairs' = enum_value_pairs
             \o EnumValueRows(enum_id, AllEnumValues(include_paths))
        /\ path_to_enum' = path_to_enum
             \o [i \in DOMAIN include_paths |->
                   [path |-> include_paths[i], enum |-> enum_id]]
        /\ decision_log' = decision_log
             \o [i \in DOMAIN include_paths |->
                   LogRow(include_paths[i], "include", "categorical", lineage)]
  /\ gi' = gi + 1
  /\ pc' = "loop"
  /\ UNCHANGED <<merged, values, candidates, values_grouped, lineage_groups,
                 sibling_enum_flags, sibling_value_counts, include_paths,
                 enum_to_values, di, value_set_to_enum, enum_remap,
                 canonical_counter, merge_log, written, raised>>

----------------------------------------------------------------------------
(* Deduplication by value set, lines 151-176, and the four writes.         *)

\* DataFrame(enum_value_pairs).groupby("enum")["value"].apply(frozenset):
\* one entry per enum id that has a row, ids in sorted order.
GroupEnumValues(rows) ==
  LET keys == sorted(Range(Column(rows, "enum")))
  IN [k \in DOMAIN keys |->
        [enum |-> keys[k],
         value_set |-> {rows[i].value : i \in {j \in DOMAIN rows :
                                                  rows[j].enum = keys[k]}}]]

\* Lines 151-160.
BuildEnumToValues ==
  /\ pc = "loop"
  /\ gi > Len(lineage_groups)
  /\ enum_to_values' = GroupEnumValues(enum_value_pairs)
  /\ value_set_to_enum' = <<>>
  /\ enum_remap' = <<>>
  /\ canonical_counter' = 1
  /\ di' = 1
  /\ pc' = "dedup"
  /\ UNCHANGED <<merged, values, candidates, values_grouped, lineage_groups,
                 gi, sibling_enum_flags, sibling_value_counts, include_paths,
                 decision_log, enum_value_pairs, path_to_enum, enum_counter,
                 merge_log, written, raised>>

\* Canonical ids counted from zero.
CanonicalIdFromZero(counter) == EnumId(counter - 1)

\* The canonical id of the next value set seen for the first time (line 164).
CanonicalId(counter) == EnumId(counter)

\* Lines 162-167: one iteration of the loop over enum_to_values.items().
DedupStep ==
  /\ pc = "dedup"
  /\ di <= Len(enum_to_values)
  /\ LET enum_id == enum_to_values[di].enum
         value_set == enum_to_values[di].value_set
     IN /\ IF value_set \notin DOMAIN value_set_to_enum
           THEN /\ value_set_to_enum' =
                     value_set_to_enum @@ (value_set :> CanonicalId(canonical_counter))
                /\ canonical_counter' = canonical_counter + 1
           ELSE UNCHANGED <<value_set_to_enum, canonical_counter>>
        /\ enum_remap' = Append(enum_remap, <<enum_id, value_set_to_enum'[value_set]>>)
  /\ di' = di + 1
  /\ UNCHANGED <<pc, merged, values, candidates, values_grouped,
                 lineage_groups, gi, sibling_enum_flags, sibling_value_counts,
                 include_paths, decision_log, enum_value_pairs, path_to_enum,
                 enum_counter, enum_to_values, merge_log, written, raised>>

\* The keys of the ordered dict enum_remap.
RemapKeys(remap) == {remap[i][1] : i \in DOMAIN remap}

\* enum_remap[enum_id]
Lookup(remap, enum_id) ==
  remap[CHOOSE i \in DOMAIN remap : remap[i][1] = enum_id][2]

\* The rows left as they are.
RowsNotRemapped(rows, remap) == rows

\* The remap followed through: a new id that is itself a key is looked up again.
RemapRowsChained(rows, remap) ==
  [i \in DOMAIN rows |->
     [rows[i] EXCEPT !.enum =
        LET once == Lookup(remap, rows[i].enum)
        IN IF once \in RemapKeys(remap) THEN Lookup(remap, once) ELSE once]]

\* row[column] = enum_remap[row[column]] for every row
RemapRows(rows, remap) ==
  [i \in DOMAIN rows |-> [rows[i] EXCEPT !.enum = Lookup(remap, rows[i].enum)]]

\* Lines 169-173.  A missing key raises KeyError and ends the run.
ApplyRemap ==
  /\ pc = "dedup"
  /\ di > Len(enum_to_values)
  /\ IF \A i \in DOMAIN enum_value_pairs :
          enum_value_pairs[i].enum \in RemapKeys(enum_remap)
     THEN /\ enum_value_pairs' = RemapRows(enum_value_pairs, enum_remap)
          /\ IF \A i \in DOMAIN path_to_enum :
                  path_to_enum[i].enum \in RemapKeys(enum_remap)
             THEN /\ path_to_enum' = RemapRows(path_to_enum, enum_remap)
                  /\ UNCHANGED raised
                  /\ pc' = "merge_log"
             ELSE /\ UNCHANGED path_to_enum
                  /\ raised' = "KeyError"
                  /\ pc' = AfterRaise
     ELSE /\ UNCHANGED <<enum_value_pairs, path_to_enum>>
          /\ raised' = "KeyError"
          /\ pc' = AfterRaise
  /\ UNCHANGED <<merged, values, candidates, values_grouped, lineage_groups,
                 gi, sibling_enum_flags, sibling_value_counts, include_paths,
                 decision_log, enum_counter, enum_to_values, di,
                 value_set_to_enum, enum_remap, canonical_counter, merge_log,
                 written>>

\* {old: new for old, new in enum_remap.items() if old != new}
merged_enums(remap) ==
  LET Changed(item) == item[1] # item[2]
  IN SelectSeq(remap, Changed)

\* Lines 175-176.
BuildMergeLog ==
  /\ pc = "merge_log"
  /\ merge_log' = [i \in DOMAIN merged_enums(enum_remap) |->
                     [old_enum |-> merged_enums(enum_remap)[i][1],
                      new_enum |-> merged_enums(enum_remap)[i][2]]]
  /\ pc' = "write"
  /\ UNCHANGED <<merged, values, candidates, values_grouped, lineage_groups,
                 gi, sibling_enum_flags, sibling_value_counts, include_paths,
                 decision_log, enum_value_pairs, path_to_enum, enum_counter,
                 enum_to_values, di, value_set_to_enum, enum_remap,
                 canonical_counter, written, raised>>

\* The four tables in the order lines 189-192 write them.
OutputTables ==
  << [file |-> "enum_value_pairs", rows |-> drop_duplicates(enum_value_pairs)],
     [file |-> "path_to_enum", rows |-> drop_duplicates(path_to_enum)],
     [file |-> "decision_log", rows |-> decision_log],
     [file |-> "enum_merge_log", rows |-> merge_log] >>

\* Lines 189-192: one to_csv call.
WriteOutput ==
  /\ pc = "write"
  /\ written' = Append(written, OutputTables[Len(written) + 1])
  /\ pc' = IF Len(written') = Len(OutputTables) THEN "done" ELSE "write"
  /\ UNCHANGED <<merged, values, candidates, values_grouped, lineage_groups,
                 gi, sibling_enum_flags, sibling_value_counts, include_paths,
                 decision_log, enum_value_pairs, path_to_enum, enum_counter,
                 enum_to_values, di, value_set_to_enum, enum_remap,
                 canonical_counter, merge_log, raised>>

Next ==
  \/ MergePaths
  \/ Prepare
  \/ ClassifySiblings
  \/ SkipGroup
  \/ OversizeRule
  \/ AssembleEnum
  \/ BuildEnumToValues
  \/ DedupStep
  \/ ApplyRemap
  \/ BuildMergeLog
  \/ WriteOutput

Spec == Init /\ [][Next]_vars

SpecClassifier == InitClassifier /\ [][Next]_vars

\* The run from the files on.
NextFromFiles ==
  \/ Load
  \/ MergePaths
  \/ Prepare
  \/ ClassifySiblings
  \/ SkipGroup
  \/ OversizeRule
  \/ AssembleEnum
  \/ BuildEnumToValues
  \/ DedupStep
  \/ ApplyRemap
  \/ BuildMergeLog
  \/ WriteOutput

SpecMalformed == InitMalformed /\ [][NextFromFiles]_vars

----------------------------------------------------------------------------
(* Properties.                                                             *)

\* The non-null sample values of a canonical path, read from the value table.
SamplesOf(p) ==
  LET Of(r) == r.canonical_path = p /\ r.value # NaN
  IN Column(SelectSeq(values, Of), "value")

NumericCount(p) == Cardinality({i \in DOMAIN SamplesOf(p) : is_numeric(SamplesOf(p)[i])})

LongTextCount(p) == Cardinality({i \in DOMAIN SamplesOf(p) : is_long_text(SamplesOf(p)[i])})

\* The siblings of the current group, and those flagged as categorical.
CurrentSiblings == {sibling_enum_flags[i][1] : i \in DOMAIN sibling_enum_flags}

Flagged == {sibling_enum_flags[i][1] : i \in {j \in DOMAIN sibling_enum_flags :
                                                 sibling_enum_flags[j][2]}}

Excluded(p, reason) ==
  \E i \in DOMAIN decision_log :
     /\ decision_log[i].path = p
     /\ decision_log[i].decision = "exclude"
     /\ decision_log[i].reason = reason

\* C1: once a group is classified, a sibling with n > 0 non-null samples, k of
\* them numeric-like and t long-text-like, is excluded as numeric-dominated
\* iff k/n > 0.5, otherwise excluded as long-text-non-biological iff
\* t/n > 0.3, otherwise flagged categorical; nulls are not counted in n.
C1_ClassificationOrder ==
  pc = "check_include" =>
    \A p \in CurrentSiblings :
       LET n == Len(SamplesOf(p))
           k == NumericCount(p)
           t == LongTextCount(p)
       IN n > 0 =>
            /\ Excluded(p, "numeric-dominated") <=> 2 * k > n
            /\ Excluded(p, "long-text-non-biological")
                 <=> (~(2 * k > n) /\ 10 * t > 3 * n)
            /\ (p \in Flagged) <=> (~(2 * k > n) /\ ~(10 * t > 3 * n))

\* C1 witness: a path flagged categorical with both ratios exactly at their
\* thresholds (k/n = 0.5, t/n = 0.3), with nulls among its samples.
C1_Witness ==
  /\ pc = "check_include"
  /\ \E p \in Flagged :
        /\ 2 * NumericCount(p) = Len(SamplesOf(p))
        /\ 10 * LongTextCount(p) = 3 * Len(SamplesOf(p))
        /\ \E i \in DOMAIN values : values[i].value = NaN

\* The distinct non-null sample values of a canonical path.
DistinctSamples(p) == Range(SamplesOf(p))

OverrideRows(lineage) ==
  {i \in DOMAIN decision_log :
     /\ decision_log[i].path = lineage
     /\ decision_log[i].decision = "include_override"}

\* The flagged siblings in dict order.
FlaggedList ==
  LET IsFlagged(item) == item[2]
      flagged == SelectSeq(sibling_enum_flags, IsFlagged)
  IN [i \in DOMAIN flagged |-> flagged[i][1]]

SmallFlagged == {p \in Flagged : Cardinality(DistinctSamples(p)) <= MAX_ENUM_VALUES}

\* C2: after the oversized-group rule, for a group with a flagged path of more
\* than MAX_ENUM_VALUES distinct values: if the flagged paths within the limit
\* are strictly more than half of the flagged paths, all flagged paths are kept
\* and the log holds exactly one include_override row for the lineage (the
\* last row); otherwise exactly the paths within the limit are kept and the
\* log holds no include_override row for the lineage.
C2_OversizedRule ==
  (pc = "assemble" /\ SmallFlagged # Flagged) =>
     LET lineage == lineage_groups[gi].lineage
     IN IF 2 * Cardinality(SmallFlagged) > Cardinality(Flagged)
        THEN /\ include_paths = FlaggedList
             /\ Cardinality(OverrideRows(lineage)) = 1
             /\ decision_log[Len(decision_log)].decision = "include_override"
             /\ decision_log[Len(decision_log)].path = lineage
        ELSE /\ include_paths = SelectSeq(FlaggedList, LAMBDA p : p \in SmallFlagged)
             /\ OverrideRows(lineage) = {}

\* C2 witness: a tie (exactly half of the flagged paths within the limit): the
\* oversized path has been dropped and a path within the limit is kept.
C2_Witness ==
  /\ pc = "assemble"
  /\ SmallFlagged # Flagged
  /\ SmallFlagged # {}
  /\ 2 * Cardinality(SmallFlagged) = Cardinality(Flagged)
  /\ Len(include_paths) < Len(FlaggedList)
  /\ include_paths # <<>>

\* A second case of C2: the override fires (2 of 3 flagged paths within the limit).
C2_OverrideFires ==
  /\ pc = "assemble"
  /\ SmallFlagged # Flagged
  /\ 2 * Cardinality(SmallFlagged) > Cardinality(Flagged)
  /\ Len(include_paths) = Cardinality(Flagged)

EnumsOf(rows) == {rows[i].enum : i \in DOMAIN rows}

ValuesUnder(e) ==
  {enum_value_pairs[i].value : i \in {j \in DOMAIN enum_value_pairs :
                                         enum_value_pairs[j].enum = e}}

PathsUnder(e) ==
  {path_to_enum[i].path : i \in {j \in DOMAIN path_to_enum :
                                    path_to_enum[j].enum = e}}

IncludeRows(p) ==
  {i \in DOMAIN decision_log :
     /\ decision_log[i].path = p
     /\ decision_log[i].decision = "include"
     /\ decision_log[i].reason = "categorical"}

MappingRows(p) == {i \in DOMAIN path_to_enum : path_to_enum[i].path = p}

\* The accumulators hold provisional ids (the remap has not been applied).
Provisional == pc \in {"loop", "check_include", "assemble"}

\* The group just left produced an enum from the paths in include_paths.
EnumJustAssembled == pc = "loop" /\ gi > 1 /\ include_paths # <<>>

RemapBuilt == pc \in {"merge_log", "write", "done"}

\* The index in enum_to_values of the first enum with the value set of entry i.
FirstOfClass(i) ==
  CHOOSE j \in DOMAIN enum_to_values :
     /\ enum_to_values[j].value_set = enum_to_values[i].value_set
     /\ \A h \in 1..(j - 1) :
           enum_to_values[h].value_set # enum_to_values[i].value_set

\* The remapped id of the provisional enum at entry i.
RemapOf(i) ==
  LET hits == {h \in DOMAIN enum_remap : enum_remap[h][1] = enum_to_values[i].enum}
  IN enum_remap[CHOOSE h \in hits : TRUE][2]

HasRemap(i) ==
  Cardinality({h \in DOMAIN enum_remap : enum_remap[h][1] = enum_to_values[i].enum}) = 1

\* C4 as stated: every provisional enum is remapped to the lowest provisional
\* id with its value set, so a non-duplicate keeps its own id.
C4_LowestProvisionalId ==
  RemapBuilt =>
    \A i \in DOMAIN enum_to_values :
       /\ HasRemap(i)
       /\ RemapOf(i) = enum_to_values[FirstOfClass(i)].enum

\* C4 amended: every provisional enum is remapped to Enum_k, k being the rank
\* of its value set among the distinct value sets in order of first
\* appearance (ascending provisional id); so two provisional enums get the
\* same final id exactly when their value sets are equal.
C4_CanonicalRenumbering ==
  RemapBuilt =>
    \A i \in DOMAIN enum_to_values :
       /\ HasRemap(i)
       /\ RemapOf(i) =
            EnumId(Cardinality({enum_to_values[h].value_set : h \in 1..FirstOfClass(i)}))
       /\ \A j \in DOMAIN enum_to_values :
             HasRemap(j) =>
               ((RemapOf(i) = RemapOf(j))
                  <=> (enum_to_values[i].value_set = enum_to_values[j].value_set))

\* C4 witness: a duplicate was absorbed and a later enum that duplicates no
\* earlier one did not keep its own id.
C4_Witness ==
  /\ RemapBuilt
  /\ \E i, j \in DOMAIN enum_to_values :
        /\ FirstOfClass(i) # i
        /\ FirstOfClass(j) = j
        /\ RemapOf(j) # enum_to_values[j].enum

\* The provisional enums absorbed as duplicates of an earlier one.
Absorbed == {i \in DOMAIN enum_to_values : FirstOfClass(i) # i}

\* C5: the merge log holds one row (old, new) exactly for each provisional
\* enum absorbed as a duplicate of an earlier one with the same value set, so
\* it is empty when no two provisional enums have equal value sets.
C5_MergeLogIsDuplicates ==
  pc \in {"write", "done"} =>
    /\ Len(merge_log) = Cardinality(Absorbed)
    /\ Range(merge_log) =
         {[old_enum |-> enum_to_values[i].enum, new_enum |-> RemapOf(i)] : i \in Absorbed}

\* The provisional ids in order of creation.
CreatedIds == unique(Column(path_to_enum, "enum"))

\* C6: the provisional ids created so far are Enum_0001, Enum_0002, ... in
\* creation order with no gap, and the counter has advanced once per enum
\* created (a group that ends with nothing included consumes no id).
C6_ConsecutiveIds ==
  Provisional =>
    /\ CreatedIds = [i \in 1..Len(CreatedIds) |-> EnumId(i)]
    /\ enum_counter = Len(CreatedIds) + 1

\* The candidate canonical paths that have a non-null sample.
SampledCandidates ==
  {merged[i].canonical_path : i \in {j \in DOMAIN merged :
      /\ merged[j].distinct_value_count >= MIN_ENUM_VALUES
      /\ SamplesOf(merged[j].canonical_path) # <<>>}}

FateRows(p) ==
  {i \in DOMAIN decision_log :
     /\ decision_log[i].path = p
     /\ decision_log[i].decision \in {"include", "exclude"}}

\* C7: at the end of a run every candidate canonical path with a non-null
\* sample has exactly one include or exclude row in the decision log, an
\* include row iff the path is mapped to an enum.
C7_CompleteAuditTrail ==
  pc = "done" =>
    \A p \in SampledCandidates :
       /\ Cardinality(FateRows(p)) = 1
       /\ \A i \in FateRows(p) :
             (decision_log[i].decision = "include") <=> (MappingRows(p) # {})

\* C7, the append-only half: a step never removes or changes a row of the log.
C7_AppendOnly ==
  [][/\ Len(decision_log') >= Len(decision_log)
     /\ SubSeq(decision_log', 1, Len(decision_log)) = decision_log]_vars

\* The rows of an output table that has been written.
WrittenRows(file) ==
  LET hits == {i \in DOMAIN written : written[i].file = file}
  IN IF hits = {} THEN <<>> ELSE written[CHOOSE i \in hits : TRUE].rows

ValueSetIn(rows, e) ==
  {rows[i].value : i \in {j \in DOMAIN rows : rows[j].enum = e}}

DistinctValueSets(rows) ==
  \A e1, e2 \in EnumsOf(rows) :
     e1 # e2 => ValueSetIn(rows, e1) # ValueSetIn(rows, e2)

\* C8: once the remap has been applied, no two different enum ids of the
\* enum-value table (the accumulator and the table written from it) list the
\* same set of values.
C8_DistinctValueSets ==
  RemapBuilt =>
    /\ DistinctValueSets(enum_value_pairs)
    /\ DistinctValueSets(WrittenRows("enum_value_pairs"))

\* C8 witness: three provisional enums, two of them with equal value sets,
\* ended as two final enums in the written table.
C8_Witness ==
  /\ pc = "done"
  /\ Len(enum_to_values) = 3
  /\ Cardinality(Absorbed) = 1
  /\ Cardinality(EnumsOf(WrittenRows("enum_value_pairs"))) = 2

OneRowPerPath(rows) ==
  \A i, j \in DOMAIN rows : rows[i].path = rows[j].path => i = j

\* C9: a canonical path has at most one row in the path-to-enum accumulator,
\* before and after deduplication, and in the written table.
C9_OneEnumPerPath ==
  /\ OneRowPerPath(path_to_enum)
  /\ OneRowPerPath(WrittenRows("path_to_enum"))

\* C9 witness: "a" and "a.[]" are both candidate raw paths and the canonical
\* path "a" is mapped to an enum in the written table.
C9_Witness ==
  /\ pc = "done"
  /\ \E i, j \in DOMAIN merged :
        /\ merged[i].path = RawPaths[1]
        /\ merged[j].path = RawPaths[2]
        /\ merged[i].distinct_value_count >= MIN_ENUM_VALUES
        /\ merged[j].distinct_value_count >= MIN_ENUM_VALUES
  /\ \E i \in DOMAIN WrittenRows("path_to_enum") :
        WrittenRows("path_to_enum")[i].path = RawPaths[1]

\* The canonical_path column has been computed.
Canonicalized == pc # "loaded"

\* C10 as stated: canonical_map applied to the canonical path of any row
\* returns it unchanged.
C10_Idempotent ==
  Canonicalized =>
    \A i \in DOMAIN merged :
       canonical_map(merged[i].canonical_path) = merged[i].canonical_path

\* The path ends in two array markers, ".[].[]".
NestedArray(path) == endswith(path, ArraySuffix \o ArraySuffix)

\* C10 amended: canonical_map applied to the canonical path of a row returns
\* it unchanged when the raw path ends in at most one array marker; a raw path
\* ending in ".[].[]" loses one marker per application.
C10_IdempotentOnSingleMarker ==
  Canonicalized =>
    \A i \in DOMAIN merged :
       IF NestedArray(merged[i].path)
       THEN /\ merged[i].canonical_path # merged[i].path
            /\ canonical_map(merged[i].canonical_path) # merged[i].canonical_path
       ELSE canonical_map(merged[i].canonical_path) = merged[i].canonical_path

\* C10 witness: a raw path with one trailing array marker was canonicalized.
C10_Witness ==
  /\ Canonicalized
  /\ \E i \in DOMAIN merged :
        /\ endswith(merged[i].path, ArraySuffix)
        /\ ~NestedArray(merged[i].path)
        /\ merged[i].canonical_path # merged[i].path

\* Loading, the assembly of every group and the deduplication are complete.
AllComputed ==
  /\ pc \in {"write", "done"}
  /\ gi > Len(lineage_groups)
  /\ di > Len(enum_to_values)
  /\ Len(enum_remap) = Len(enum_to_values)

\* C11: a run that raised an exception (while loading, preparing, assembling
\* or deduplicating) has written no output table, and an output table is
\* written only when no exception was raised and loading, the assembly of
\* every sibling group and the deduplication are complete.
C11_NoOutputOnFailure ==
  /\ raised # "none" => written = <<>>
  /\ written # <<>> => (raised = "none" /\ AllComputed)

\* C11 witness: the value table was loaded without its value column, the run
\* failed after the candidates were filtered, and nothing is written.
C11_Witness ==
  /\ pc = "failed"
  /\ raised = "KeyError"
  /\ candidates # <<>>
  /\ ~HasColumn(values, "value")
  /\ written = <<>>

\* The deduplication loop is over and the remap is about to be applied.
RemapDue == pc = "dedup" /\ di > Len(enum_to_values)

\* The new id enum_remap gives an old id.
RemapTarget(e) ==
  LET hits == {h \in DOMAIN enum_remap : enum_remap[h][1] = e}
  IN enum_remap[CHOOSE h \in hits : TRUE][2]

\* C12: when the remap is applied, every enum id of the two accumulators is a
\* key of enum_remap (no KeyError), every row gets the new id of its own old
\* id (one lookup, not followed further), and every path-to-enum row ends
\* under an id whose values in the remapped enum-value table are the values of
\* the provisional enum the path was assigned to, so they include every
\* non-null sample of the path.
C12_RemapPreservesAssignment ==
  [][RemapDue =>
       /\ EnumsOf(enum_value_pairs) \cup EnumsOf(path_to_enum)
            \subseteq {enum_remap[h][1] : h \in DOMAIN enum_remap}
       /\ pc' = "merge_log"
       /\ raised' = "none"
       /\ Len(enum_value_pairs') = Len(enum_value_pairs)
       /\ Len(path_to_enum') = Len(path_to_enum)
       /\ \A i \in DOMAIN enum_value_pairs :
             /\ enum_value_pairs'[i].value = enum_value_pairs[i].value
             /\ enum_value_pairs'[i].enum = RemapTarget(enum_value_pairs[i].enum)
       /\ \A i \in DOMAIN path_to_enum :
             /\ path_to_enum'[i].path = path_to_enum[i].path
             /\ path_to_enum'[i].enum = RemapTarget(path_to_enum[i].enum)
             /\ ValueSetIn(enum_value_pairs', path_to_enum'[i].enum)
                  = ValueSetIn(enum_value_pairs, path_to_enum[i].enum)
             /\ DistinctSamples(path_to_enum[i].path)
                  \subseteq ValueSetIn(enum_value_pairs', path_to_enum'[i].enum)
  ]_vars

\* C12 witness: the remap has been applied and some id is both an old id that
\* changed and the new id of another enum (Enum_0003 -> Enum_0002 -> Enum_0001
\* would be a chain).
C12_Witness ==
  /\ pc = "merge_log"
  /\ path_to_enum # <<>>
  /\ \E h, j \in DOMAIN enum_remap :
        /\ enum_remap[h][2] = enum_remap[j][1]
        /\ enum_remap[j][1] # enum_remap[j][2]
        /\ enum_remap[h][1] # enum_remap[h][2]

====
